---- MODULE Spec2Model ----
(***************************************************************************)
(* A model of four helpers of the littlefish library:                      *)
(*   - celeryutil.non_overlapping over redisutil's task locks              *)
(*   - pager.Pager / pager.SimplePager                                     *)
(*   - yamldata.import_model                                               *)
(*   - imageutil.resize_crop_image                                         *)
(* Each helper has its own specification; the variables of the other       *)
(* helpers keep their initial values under it.                             *)
(*                                                                         *)
(* Python's Optional values are modelled as sets: {} is None and {v} is    *)
(* the value v.                                                            *)
(***************************************************************************)
EXTENDS Integers, Sequences, FiniteSets, TLC

\* ------------------------------------------------------------------------
\* Bounds of the model
\* ------------------------------------------------------------------------

\* Number of concurrent workers invoking decorated tasks
NumWorkers == 2

\* Largest lock timeout, in clock ticks
MaxTimeout == 2

\* Largest result set paged by a Pager
MaxItems == 210

\* Largest result set paged by a SimplePager
MaxSimpleItems == 14

\* Largest page size
MaxPageSize == 2

\* Most models the session holds
MaxModels == 1

\* Longest side, in pixels, of a source image and of a target rectangle
MaxSide == 4

\* ------------------------------------------------------------------------
\* State
\* ------------------------------------------------------------------------

VARIABLES
    LOCK_TIMEOUT,      \* redisutil.LOCK_TIMEOUT, set by redisutil.init
    redis,             \* the lock keys of the Redis server: name -> {} or {[token, ttl]}
    pc,                \* where each worker is in outer()
    blocking,          \* the decorator's arguments for the running invocation
    key,
    timeout,
    lock,              \* the name of the lock object of the invocation, {} before line 119
    has_lock,          \* locals of the non-blocking branch
    return_value,
    raised_exception,
    in_flight,         \* an exception propagating through the finally block
    result,            \* what the caller of outer() got from the last invocation
    body_runs          \* how often the last invocation has started the task body

lockVars == <<LOCK_TIMEOUT, redis, pc, blocking, key, timeout, lock, has_lock,
              return_value, raised_exception, in_flight, result, body_runs>>

VARIABLES
    page_size,
    page_number,
    query,             \* the list of items that is paged
    total_items,
    total_pages,
    offset,
    items,
    max_pages,         \* {} for a Pager, {max_pages} for a SimplePager
    seo_links          \* {} or {the links render_seo_links returned for this pager}

pagerVars == <<page_size, page_number, query, total_items, total_pages, offset, items,
               max_pages, seo_links>>

VARIABLES
    fields,            \* the list of ImportFields import_model is called with
    table,             \* the models of model_class the session holds, in order of creation
    returned           \* what the last call of import_model returned or raised

importVars == <<fields, table, returned>>

VARIABLES
    image,             \* image.size of the source image, <<width, height>>
    resized            \* what the last call of resize_crop_image returned

imageVars == <<image, resized>>

vars == <<lockVars, pagerVars, importVars, imageVars>>

\* ------------------------------------------------------------------------
\* celeryutil.non_overlapping / redisutil locks
\* ------------------------------------------------------------------------

Workers == 1..NumWorkers

\* current_task.name: every worker runs the same Celery task
TaskName == "task"

\* The key arguments a task is decorated with
KeyArgs == {{}, {""}, {"task"}, {"k"}}

\* The timeout arguments a task is decorated with
TimeoutArgs == {{}} \cup {{t} : t \in 1..MaxTimeout}

\* The ways the task body can end
BodyOutcomes == {"return", "Exception", "BaseException"}

LOCK_KEY_NON_OVERLAPPING_TASK(base_key) == <<"locks:non-overlapping:", base_key>>

GLOBAL_KEY_PREFIX == "~~APP~~:"

format_key(name) == <<GLOBAL_KEY_PREFIX>> \o name

\* A lock that forgets the configured default
get_lock_timeout_no_default(t) == t

\* redisutil.get_lock: the name and the timeout of the lock object
get_lock_timeout(t) == IF t = {} THEN {LOCK_TIMEOUT} ELSE t

get_lock(name, t) == [name |-> format_key(name), timeout |-> get_lock_timeout(t)]

get_non_overlapping_task_lock(base_key, t) ==
    get_lock(LOCK_KEY_NON_OVERLAPPING_TASK(base_key), t)

\* lines 112-114 of outer
BaseKey(k) == IF k = {} THEN TaskName ELSE CHOOSE s \in k : TRUE

BaseKeys == {BaseKey(k) : k \in KeyArgs} \ {""}

LockNames == {format_key(LOCK_KEY_NON_OVERLAPPING_TASK(b)) : b \in BaseKeys}

\* A lock that is taken whoever holds it
CanAcquireAlways(name) == TRUE

\* Lock.acquire succeeds when the key is not set: SET name token NX PX timeout
CanAcquire(name) == redis[name] = {}

DoAcquire(w, l) ==
    redis' = [redis EXCEPT ![l.name] = {[token |-> w, ttl |-> l.timeout]}]

\* Lock.release: the key is deleted only when it still holds the token
Owns(w, name) == \E v \in redis[name] : v.token = w

DoRelease(w, name) ==
    IF Owns(w, name)
    THEN redis' = [redis EXCEPT ![name] = {}]
    ELSE UNCHANGED redis

TheLock(w) == CHOOSE l \in lock[w] : TRUE

LockInit ==
    /\ LOCK_TIMEOUT \in 1..MaxTimeout
    /\ redis = [n \in LockNames |-> {}]
    /\ pc = [w \in Workers |-> "idle"]
    /\ blocking = [w \in Workers |-> FALSE]
    /\ key = [w \in Workers |-> {}]
    /\ timeout = [w \in Workers |-> {}]
    /\ lock = [w \in Workers |-> {}]
    /\ has_lock = [w \in Workers |-> {}]
    /\ return_value = [w \in Workers |-> {}]
    /\ raised_exception = [w \in Workers |-> {}]
    /\ in_flight = [w \in Workers |-> {}]
    /\ result = [w \in Workers |-> "none"]
    /\ body_runs = [w \in Workers |-> 0]

\* A call of the decorated task: outer() up to line 119
Invoke(w, b, k, t) ==
    /\ pc[w] = "idle"
    /\ body_runs' = [body_runs EXCEPT ![w] = 0]
    /\ IF BaseKey(k) = ""
       THEN \* line 117: raise Exception('No key for non-overlapping task!')
            /\ result' = [result EXCEPT ![w] = "NoKey"]
            /\ UNCHANGED <<pc, blocking, key, timeout, lock>>
       ELSE /\ pc' = [pc EXCEPT ![w] = "acquire"]
            /\ blocking' = [blocking EXCEPT ![w] = b]
            /\ key' = [key EXCEPT ![w] = k]
            /\ timeout' = [timeout EXCEPT ![w] = t]
            /\ lock' = [lock EXCEPT ![w] =
                           {get_non_overlapping_task_lock(BaseKey(k), t)}]
            /\ result' = [result EXCEPT ![w] = "none"]
    /\ UNCHANGED <<pagerVars, importVars, imageVars>>
    /\ UNCHANGED <<LOCK_TIMEOUT, redis, has_lock, return_value, raised_exception,
                   in_flight>>

\* A blocking acquire that takes the lock at its first try, held or not
EnterWithoutWaiting(w) ==
    /\ pc[w] = "acquire"
    /\ blocking[w]
    /\ DoAcquire(w, TheLock(w))
    /\ pc' = [pc EXCEPT ![w] = "body"]
    /\ body_runs' = [body_runs EXCEPT ![w] = @ + 1]
    /\ UNCHANGED <<pagerVars, importVars, imageVars>>
    /\ UNCHANGED <<LOCK_TIMEOUT, blocking, key, timeout, lock, has_lock, return_value,
                   raised_exception, in_flight, result>>

\* with lock: __enter__ is acquire(blocking=True), which retries until the key is free
Enter(w) ==
    /\ pc[w] = "acquire"
    /\ blocking[w]
    /\ CanAcquire(TheLock(w).name)
    /\ DoAcquire(w, TheLock(w))
    /\ pc' = [pc EXCEPT ![w] = "body"]
    /\ body_runs' = [body_runs EXCEPT ![w] = @ + 1]
    /\ UNCHANGED <<pagerVars, importVars, imageVars>>
    /\ UNCHANGED <<LOCK_TIMEOUT, blocking, key, timeout, lock, has_lock, return_value,
                   raised_exception, in_flight, result>>

\* An abort that runs the body all the same
AbortRunsBody(w) ==
    /\ has_lock' = [has_lock EXCEPT ![w] = {FALSE}]
    /\ pc' = [pc EXCEPT ![w] = "body"]
    /\ body_runs' = [body_runs EXCEPT ![w] = @ + 1]
    /\ UNCHANGED redis

\* lines 135-136: the lock is taken, log 'Aborting task - already running'
Abort(w) ==
    /\ has_lock' = [has_lock EXCEPT ![w] = {FALSE}]
    /\ pc' = [pc EXCEPT ![w] = "finally"]
    /\ UNCHANGED <<redis, body_runs>>

\* lines 131-136: has_lock = lock.acquire(blocking=False)
TryAcquire(w) ==
    /\ pc[w] = "acquire"
    /\ ~blocking[w]
    /\ IF CanAcquire(TheLock(w).name)
       THEN /\ DoAcquire(w, TheLock(w))
            /\ has_lock' = [has_lock EXCEPT ![w] = {TRUE}]
            /\ pc' = [pc EXCEPT ![w] = "body"]
            /\ body_runs' = [body_runs EXCEPT ![w] = @ + 1]
       ELSE Abort(w)
    /\ UNCHANGED <<pagerVars, importVars, imageVars>>
    /\ UNCHANGED <<LOCK_TIMEOUT, blocking, key, timeout, lock, return_value,
                   raised_exception, in_flight, result>>

\* f(*args, **kwargs) ends: it returns a value or raises
Body(w, o) ==
    /\ pc[w] = "body"
    /\ IF blocking[w]
       THEN /\ pc' = [pc EXCEPT ![w] = "exit"]
            /\ return_value' = [return_value EXCEPT ![w] =
                                   IF o = "return" THEN {"value"} ELSE {}]
            /\ in_flight' = [in_flight EXCEPT ![w] =
                                IF o = "return" THEN {} ELSE {o}]
            /\ UNCHANGED raised_exception
       ELSE /\ pc' = [pc EXCEPT ![w] = "finally"]
            /\ return_value' = [return_value EXCEPT ![w] =
                                   IF o = "return" THEN {"value"} ELSE {}]
            \* line 137: except Exception as e
            /\ raised_exception' = [raised_exception EXCEPT ![w] =
                                       IF o = "Exception" THEN {o} ELSE {}]
            /\ in_flight' = [in_flight EXCEPT ![w] =
                                IF o = "BaseException" THEN {o} ELSE {}]
    /\ UNCHANGED <<pagerVars, importVars, imageVars>>
    /\ UNCHANGED <<LOCK_TIMEOUT, redis, blocking, key, timeout, lock, has_lock,
                   result, body_runs>>

\* The task body never ends (the worker hangs or is killed inside it)
Hang(w) ==
    /\ pc[w] = "body"
    /\ pc' = [pc EXCEPT ![w] = "hung"]
    /\ UNCHANGED <<pagerVars, importVars, imageVars>>
    /\ UNCHANGED <<LOCK_TIMEOUT, redis, blocking, key, timeout, lock, has_lock,
                   return_value, raised_exception, in_flight, result, body_runs>>

\* outer() returns or raises: its frame and its lock object are gone
Leave(w) ==
    /\ blocking' = [blocking EXCEPT ![w] = FALSE]
    /\ key' = [key EXCEPT ![w] = {}]
    /\ timeout' = [timeout EXCEPT ![w] = {}]
    /\ lock' = [lock EXCEPT ![w] = {}]
    /\ has_lock' = [has_lock EXCEPT ![w] = {}]
    /\ return_value' = [return_value EXCEPT ![w] = {}]
    /\ raised_exception' = [raised_exception EXCEPT ![w] = {}]
    /\ in_flight' = [in_flight EXCEPT ![w] = {}]

\* What outer() hands to its caller
Outcome(v, e) ==
    IF e # {} THEN CHOOSE x \in e : TRUE
    ELSE IF v # {} THEN CHOOSE x \in v : TRUE
    ELSE "None"

\* line 123-124: Lock.__exit__ releases; release raises LockError when the key is not ours
Exit(w) ==
    /\ pc[w] = "exit"
    /\ DoRelease(w, TheLock(w).name)
    /\ result' = [result EXCEPT ![w] =
                     IF Owns(w, TheLock(w).name)
                     THEN Outcome(return_value[w], in_flight[w])
                     ELSE "LockError"]
    /\ pc' = [pc EXCEPT ![w] = "idle"]
    /\ Leave(w)
    /\ UNCHANGED <<pagerVars, importVars, imageVars>>
    /\ UNCHANGED <<LOCK_TIMEOUT, body_runs>>

\* lines 139-146: the finally block
Finally(w) ==
    /\ pc[w] = "finally"
    /\ IF has_lock[w] = {TRUE}
       THEN /\ DoRelease(w, TheLock(w).name)
            /\ result' = [result EXCEPT ![w] =
                             IF Owns(w, TheLock(w).name)
                             THEN Outcome(return_value[w], raised_exception[w])
                             ELSE "LockError"]
       ELSE /\ UNCHANGED redis
            /\ result' = [result EXCEPT ![w] =
                             Outcome(return_value[w], raised_exception[w])]
    /\ pc' = [pc EXCEPT ![w] = "idle"]
    /\ Leave(w)
    /\ UNCHANGED <<pagerVars, importVars, imageVars>>
    /\ UNCHANGED <<LOCK_TIMEOUT, body_runs>>

\* One tick of the Redis server's clock: every key with a time to live loses one tick
\* and is deleted when none is left
Expiring == {n \in LockNames : \E v \in redis[n] : v.ttl # {}}

Remaining(v) == (CHOOSE t \in v.ttl : TRUE) - 1

Tick ==
    /\ Expiring # {}
    /\ redis' = [n \in LockNames |->
                    {IF v.ttl = {} THEN v ELSE [v EXCEPT !.ttl = {Remaining(v)}]
                       : v \in {u \in redis[n] : u.ttl = {} \/ Remaining(u) > 0}}]
    /\ UNCHANGED <<pagerVars, importVars, imageVars>>
    /\ UNCHANGED <<LOCK_TIMEOUT, pc, blocking, key, timeout, lock, has_lock, return_value,
                   raised_exception, in_flight, result, body_runs>>

LockNext ==
    \/ \E w \in Workers, b \in BOOLEAN, k \in KeyArgs, t \in TimeoutArgs : Invoke(w, b, k, t)
    \/ \E w \in Workers : Enter(w)
    \/ \E w \in Workers : TryAcquire(w)
    \/ \E w \in Workers, o \in BodyOutcomes : Body(w, o)
    \/ \E w \in Workers : Hang(w)
    \/ \E w \in Workers : Exit(w)
    \/ \E w \in Workers : Finally(w)
    \/ Tick

\* No lock is held long enough for its timeout to expire
NoExpiryNext ==
    \/ \E w \in Workers, b \in BOOLEAN, k \in KeyArgs, t \in TimeoutArgs : Invoke(w, b, k, t)
    \/ \E w \in Workers : Enter(w)
    \/ \E w \in Workers : TryAcquire(w)
    \/ \E w \in Workers, o \in BodyOutcomes : Body(w, o)
    \/ \E w \in Workers : Hang(w)
    \/ \E w \in Workers : Exit(w)
    \/ \E w \in Workers : Finally(w)

\* Every task body ends
TerminatingNext ==
    \/ \E w \in Workers, b \in BOOLEAN, k \in KeyArgs, t \in TimeoutArgs : Invoke(w, b, k, t)
    \/ \E w \in Workers : Enter(w)
    \/ \E w \in Workers : TryAcquire(w)
    \/ \E w \in Workers, o \in BodyOutcomes : Body(w, o)
    \/ \E w \in Workers : Exit(w)
    \/ \E w \in Workers : Finally(w)
    \/ Tick

\* ------------------------------------------------------------------------
\* pager.Pager and pager.SimplePager
\* ------------------------------------------------------------------------

\* SimplePager's default for max_pages
DefaultMaxPages == 12

Min(a, b) == IF a < b THEN a ELSE b

Indexes(seq) == 1..Len(seq)

\* Python's q[a:b] for a, b >= 0
Slice(q, a, b) == SubSeq(q, Min(a, Len(q)) + 1, Min(b, Len(q)))

\* A list of n distinct items
Items(n) == [i \in 1..n |-> i]

\* lines 29-35: int(page_number), 1 when it does not parse or is below 1
ParsePageNumber(raw) ==
    IF raw = {} THEN 1
    ELSE IF (CHOOSE i \in raw : TRUE) < 1 THEN 1
    ELSE CHOOSE i \in raw : TRUE

\* A page count that rounds down
TotalPagesRoundedDown(n, s) == n \div s

\* line 47
TotalPages(n, s) == (n - 1) \div s + 1

\* A page number that is not held to the last page
ClampPageUnchecked(pn, tp) == pn

\* lines 49-50
ClampPage(pn, tp) == IF pn > tp THEN tp ELSE pn

\* lines 52-54
Offset(s, pn) == IF s * (pn - 1) < 0 THEN 1 ELSE s * (pn - 1)

\* Pager.__init__: the fields of Pager(page_size, page_number, query, total_items)
Pager(s, raw, q, ti) ==
    LET n  == IF ti # {} /\ ti # {0} THEN CHOOSE i \in ti : TRUE ELSE Len(q)
        tp == TotalPages(n, s)
        pn == ClampPage(ParsePageNumber(raw), tp)
        off == Offset(s, pn)
    IN  [page_size |-> s, page_number |-> pn, query |-> q, total_items |-> n,
         total_pages |-> tp, offset |-> off, items |-> Slice(q, off, off + s)]

has_prev == page_number > 1

has_next == page_number < total_pages

prev == page_number - 1

next == page_number + 1

Append1(c, seq, x) == IF c THEN Append(seq, x) ELSE seq

\* A list of links that does not look whether the current page is the first or the last
PageLinkNumbersNoEdgeCheck(pn, tp) ==
    IF tp <= 1 THEN <<1>>
    ELSE LET p1 == Append1(pn > 103, <<1>>, pn - 100)
             p2 == Append1(pn > 53, p1, pn - 50)
             p3 == Append1(pn > 3, p2, pn - 2)
             p4 == Append1(pn > 2, p3, pn - 1)
             p5 == Append(p4, pn)
             p6 == Append1(pn < tp - 1, p5, pn + 1)
             p7 == Append1(pn < tp - 2, p6, pn + 2)
             p8 == Append1(pn < tp - 52, p7, pn + 50)
             p9 == Append1(pn < tp - 102, p8, pn + 100)
         IN  Append(p9, tp)

\* Pager.page_link_numbers for page pn of tp
PageLinkNumbers(pn, tp) ==
    IF tp <= 1 THEN <<1>>
    ELSE LET p1 == Append1(pn > 103, <<1>>, pn - 100)
             p2 == Append1(pn > 53, p1, pn - 50)
             p3 == Append1(pn > 3, p2, pn - 2)
             p4 == Append1(pn > 2, p3, pn - 1)
             p5 == Append1(pn # 1 /\ pn # tp, p4, pn)
             p6 == Append1(pn < tp - 1, p5, pn + 1)
             p7 == Append1(pn < tp - 2, p6, pn + 2)
             p8 == Append1(pn < tp - 52, p7, pn + 50)
             p9 == Append1(pn < tp - 102, p8, pn + 100)
         IN  Append(p9, tp)

\* range(a, b + 1)
Range(a, b) == [i \in 1..(IF b < a THEN 0 ELSE b - a + 1) |-> a + i - 1]

\* SimplePager.page_link_numbers for page pn of tp with m links
SimplePageLinkNumbers(pn, tp, m) ==
    LET start0 == IF pn - m \div 2 + 1 < 1 THEN 1 ELSE pn - m \div 2 + 1
        end0   == start0 + m - 1
        end    == IF end0 > tp THEN tp ELSE end0
        start  == IF end0 > tp /\ start0 > 1 THEN end - m + 1 ELSE start0
    IN  Range(start, end)

page_link_numbers ==
    IF max_pages = {} THEN PageLinkNumbers(page_number, total_pages)
    ELSE SimplePageLinkNumbers(page_number, total_pages, CHOOSE m \in max_pages : TRUE)

\* get_full_page_url: the page argument of the URL, none for page 1
get_full_page_url(pn) == IF pn # 1 THEN {pn} ELSE {}

Link(rel, pn) == [rel |-> rel, page |-> get_full_page_url(pn)]

\* The links of the pager r
RenderPrevNextLinks(r) ==
    Append1(r.page_number < r.total_pages,
            Append1(r.page_number > 1, <<>>, Link("prev", r.page_number - 1)),
            Link("next", r.page_number + 1))

RenderCanonicalLink(r) == Link("canonical", r.page_number)

RenderSeoLinks(r) ==
    Append1(r.total_pages = 1, RenderPrevNextLinks(r), RenderCanonicalLink(r))

\* Pager.first_item_number
FirstItemNumber(off) == off + 1

\* Pager.last_item_number
LastItemNumber(off, s, n) ==
    IF FirstItemNumber(off) + s - 1 > n THEN n ELSE FirstItemNumber(off) + s - 1

first_item_number == FirstItemNumber(offset)

last_item_number == LastItemNumber(offset, page_size, total_items)

SetPager(r) ==
    /\ page_size' = r.page_size
    /\ page_number' = r.page_number
    /\ query' = r.query
    /\ total_items' = r.total_items
    /\ total_pages' = r.total_pages
    /\ offset' = r.offset
    /\ items' = r.items

\* The total_items argument: left out, or the size of the result set
TotalItemsArgs(q) == {{}, {Len(q)}}

PagerInit ==
    \E kind \in {"Pager", "SimplePager"} :
    \E n \in 0..(IF kind = "Pager" THEN MaxItems ELSE MaxSimpleItems) :
    \E s \in 1..MaxPageSize :
        LET r == Pager(s, {1}, Items(n), {})
        IN  /\ page_size = r.page_size
            /\ page_number = r.page_number
            /\ query = r.query
            /\ total_items = r.total_items
            /\ total_pages = r.total_pages
            /\ offset = r.offset
            /\ items = r.items
            /\ max_pages \in (IF kind = "Pager" THEN {{}}
                              ELSE {{m} : m \in 1..DefaultMaxPages})
            /\ seo_links = {}

\* The page arguments of a request: a link of the page, the previous or the next page,
\* or what a user types
PageArgs ==
    {{}} \cup {{i} : i \in {-1, 0, prev, next, total_pages + 1}}
         \cup {{page_link_numbers[i]} : i \in 1..Len(page_link_numbers)}

\* A request for a page of the same listing: the view builds a new pager and the
\* template renders its SEO links
Request(raw, ti) ==
    LET r == Pager(page_size, raw, query, IF max_pages = {} THEN ti ELSE {})
    IN  /\ SetPager(r)
        /\ seo_links' = {RenderSeoLinks(r)}
        /\ UNCHANGED max_pages
        /\ UNCHANGED <<lockVars, importVars, imageVars>>

PagerNext ==
    \E raw \in PageArgs, ti \in TotalItemsArgs(query) : Request(raw, ti)

\* ------------------------------------------------------------------------
\* yamldata.import_model
\* ------------------------------------------------------------------------

\* Values of a parsed YAML file: strings (one of them with a newline) and an integer
RawValues == {[t |-> "str", v |-> "a"], [t |-> "int", v |-> "1"],
              [t |-> "str", v |-> "a\nb"]}

\* load_single_line_str: str(s), a ValueError when it holds a newline
load_single_line_str(raw) ==
    IF raw.v = "a\nb" THEN [ok |-> FALSE, value |-> ""] ELSE [ok |-> TRUE, value |-> raw.v]

\* DataType.constant_value of CONSTANT('c'); None for the other types
constant_value(f) == IF f.data_type = "CONSTANT" THEN {"c"} ELSE {}

\* ImportField.python_name
python_name(f) ==
    IF f.python_name_arg # {} /\ f.python_name_arg # {""}
    THEN CHOOSE x \in f.python_name_arg : TRUE
    ELSE f.name

\* ImportField.__init__: only optional arguments can have a default
ImportFields(name, type, identifier) ==
    {f \in [name : {name}, data_type : {type}, constructor_field : BOOLEAN,
            identifier : {identifier}, optional : BOOLEAN, default : {{}, {"d"}},
            unchangeable : BOOLEAN, no_update : BOOLEAN,
            python_name_arg : {{}, {name \o "_col"}}] :
        f.default # {} => f.optional}

\* The identifier fields of the field lists
CodeFields ==
    {f \in ImportFields("code", "STR", TRUE) :
        ~f.optional /\ ~f.unchangeable /\ ~f.no_update}

\* The other fields of the field lists: a string, a constant, or an ignored sub-model
LabelFields ==
    {f \in ImportFields("label", "STR", FALSE) : f.python_name_arg = {}}
    \cup {f \in ImportFields("label", "CONSTANT", FALSE) :
              f.python_name_arg = {} /\ ~f.optional}
    \cup {f \in ImportFields("label", "IGNORE", FALSE) :
              /\ f.python_name_arg = {} /\ f.default = {}
              /\ f.constructor_field /\ ~f.unchangeable /\ ~f.no_update}

\* The field lists import_model is called with: an identifier and another field
FieldLists == {<<c, l>> : c \in CodeFields, l \in LabelFields}

OptionalOf(S) == {{}} \cup {{x} : x \in S}

\* The parsed YAML dicts import_model is called with
YamlDicts ==
    UNION {[keys -> OptionalOf(RawValues)] : keys \in SUBSET {"code", "label"}}
    \cup UNION {{y \in [keys \cup {"extra"} -> OptionalOf(RawValues)] : y["extra"] = {}}
                    : keys \in SUBSET {"code", "label"}}

Names(fs) == {fs[i].name : i \in Indexes(fs)}

PythonNames(fs) == {python_name(fs[i]) : i \in Indexes(fs)}

\* lines 216-226
HasDuplicates(fs) ==
    \E i, j \in Indexes(fs) :
        i < j /\ (fs[i].name = fs[j].name \/ python_name(fs[i]) = python_name(fs[j]))

FieldNamed(fs, n) == fs[CHOOSE i \in Indexes(fs) : fs[i].name = n]

\* lines 231-246: the names that get a value in data
DataKeys(fs, yaml) ==
    {fs[i].name : i \in {j \in Indexes(fs) :
        /\ fs[j].data_type # "IGNORE"
        /\ \/ constant_value(fs[j]) # {}
           \/ fs[j].name \in DOMAIN yaml
           \/ fs[j].optional}}

\* line 244: a value of the YAML dict that does not convert
ConversionFails(fs, yaml) ==
    \E i \in Indexes(fs) :
        /\ fs[i].data_type = "STR"
        /\ fs[i].name \in DOMAIN yaml
        /\ \E raw \in yaml[fs[i].name] : ~load_single_line_str(raw).ok

\* lines 231-246: data, a dict name -> value
Data(fs, yaml) ==
    [n \in DataKeys(fs, yaml) |->
        LET f == FieldNamed(fs, n)
        IN  IF constant_value(f) # {} THEN constant_value(f)
            ELSE IF n \in DOMAIN yaml
                 THEN {load_single_line_str(raw).value : raw \in yaml[n]}
                 ELSE f.default]

IdentifierFields(fs) == {i \in Indexes(fs) : fs[i].identifier}

\* lines 268-276
AllFieldKeys(fs) == {fs[i].name : i \in {j \in Indexes(fs) : constant_value(fs[j]) = {}}}

RequiredFieldKeys(fs) ==
    {fs[i].name : i \in {j \in Indexes(fs) : constant_value(fs[j]) = {} /\ ~fs[j].optional}}

\* lines 291-297: the models that pass every filter
Matching(fs, tbl, data) ==
    {m \in Indexes(tbl) :
        \A i \in IdentifierFields(fs) : tbl[m][python_name(fs[i])] = data[fs[i].name]}

\* lines 329-332: where the value of a field goes
Destination(f, creating) ==
    IF creating /\ f.constructor_field THEN "kwargs"
    ELSE IF ~f.identifier /\ ~f.no_update THEN "update_fields"
    ELSE "none"

Processed(fs) == {i \in Indexes(fs) : fs[i].data_type # "IGNORE"}

\* line 337: model_class(**kwargs) sets the attributes it is given
Construct(fs, data) ==
    [a \in PythonNames(fs) |->
        IF \E i \in Processed(fs) :
               python_name(fs[i]) = a /\ Destination(fs[i], TRUE) = "kwargs"
        THEN data[fs[CHOOSE i \in Processed(fs) : python_name(fs[i]) = a].name]
        ELSE {}]

\* An update loop without the check for unchangeable fields
RECURSIVE SetFieldsUnchecked(_, _, _, _, _)
SetFieldsUnchecked(fs, i, model, data, updating) ==
    IF i > Len(fs) THEN [model |-> model, ok |-> TRUE]
    ELSE IF i \notin Processed(fs) \/ Destination(fs[i], ~updating) # "update_fields"
         THEN SetFieldsUnchecked(fs, i + 1, model, data, updating)
    ELSE SetFieldsUnchecked(fs, i + 1, [model EXCEPT ![python_name(fs[i])] = data[fs[i].name]],
                            data, updating)

\* lines 342-360: the update fields in order; an unchangeable field that differs on a
\* model that is updated raises, the fields before it have been set
RECURSIVE SetFields(_, _, _, _, _)
SetFields(fs, i, model, data, updating) ==
    IF i > Len(fs) THEN [model |-> model, ok |-> TRUE]
    ELSE IF i \notin Processed(fs) \/ Destination(fs[i], ~updating) # "update_fields"
         THEN SetFields(fs, i + 1, model, data, updating)
    ELSE LET a == python_name(fs[i])
             new_val == data[fs[i].name]
         IN  IF updating /\ model[a] # new_val /\ fs[i].unchangeable
             THEN [model |-> model, ok |-> FALSE]
             ELSE SetFields(fs, i + 1, [model EXCEPT ![a] = new_val], data, updating)

Raised(tbl, e) == [table |-> tbl, returned |-> [kind |-> "raised", error |-> e]]

Returned(tbl, m) == [table |-> tbl, returned |-> [kind |-> "model", model |-> m]]

\* import_model(model_class, yaml_data_dict, fields, session, insert_only=insert_only):
\* the models of the session afterwards and what the call returned or raised
import_model(fs, tbl, yaml, insert_only) ==
    IF HasDuplicates(fs) THEN Raised(tbl, "ValueError")
    ELSE IF ConversionFails(fs, yaml) THEN Raised(tbl, "ValueError")
    ELSE LET data == Data(fs, yaml) IN
    \* lines 259-262: the python names are looked up in data, which has the YAML names
    IF \E i \in IdentifierFields(fs) : python_name(fs[i]) \notin DOMAIN data
    THEN Raised(tbl, "ValueError")
    ELSE IF \E n \in RequiredFieldKeys(fs) : n \notin DOMAIN yaml
    THEN Raised(tbl, "Exception: Required field not present")
    ELSE IF \E n \in DOMAIN yaml : n \notin AllFieldKeys(fs)
    THEN Raised(tbl, "Exception: Unknown field")
    \* line 294: data[yaml_key]
    ELSE IF \E i \in IdentifierFields(fs) : fs[i].name \notin DOMAIN data
    THEN Raised(tbl, "KeyError")
    ELSE LET found == Matching(fs, tbl, data) IN
    IF Cardinality(found) > 1 THEN Raised(tbl, "MultipleResultsFound")
    ELSE IF found # {} /\ insert_only THEN Returned(tbl, CHOOSE m \in found : TRUE)
    \* line 327
    ELSE IF \E i \in Processed(fs) : fs[i].name \notin DOMAIN data
    THEN Raised(tbl, "Exception: Required field not present in data dic")
    ELSE IF found = {}
    THEN Returned(Append(tbl, SetFields(fs, 1, Construct(fs, data), data, FALSE).model),
                  Len(tbl) + 1)
    ELSE LET m == CHOOSE x \in found : TRUE
             set == SetFields(fs, 1, tbl[m], data, TRUE)
         IN  IF set.ok THEN Returned([tbl EXCEPT ![m] = set.model], m)
             ELSE Raised([tbl EXCEPT ![m] = set.model],
                         "Exception: Trying to change unchangeable field")

ImportInit ==
    /\ fields \in FieldLists
    /\ table = <<>>
    /\ returned = [kind |-> "none"]

\* A call of import_model with the session's models visible to its query
ImportModel(yaml, insert_only) ==
    LET r == import_model(fields, table, yaml, insert_only)
    IN  /\ Len(r.table) <= MaxModels
        /\ table' = r.table
        /\ returned' = r.returned
        /\ UNCHANGED fields
        /\ UNCHANGED <<lockVars, pagerVars, imageVars>>

ImportNext ==
    \E yaml \in YamlDicts, insert_only \in BOOLEAN : ImportModel(yaml, insert_only)

\* ------------------------------------------------------------------------
\* imageutil.resize_crop_image
\* ------------------------------------------------------------------------

\* The floats of the arithmetic are fractions n/d with d > 0
Frac(n, d) == [n |-> n, d |-> d]

Whole(x) == Frac(x, 1)

Less(a, b) == a.n * b.d < b.n * a.d

Add(a, b) == Frac(a.n * b.d + b.n * a.d, a.d * b.d)

Sub(a, b) == Frac(a.n * b.d - b.n * a.d, a.d * b.d)

Half(a) == Frac(a.n, 2 * a.d)

\* x * 0.66
Times066(a) == Frac(66 * a.n, 100 * a.d)

PowerOfTwo(m) == \E k \in 0..m : 2 ^ k = m

\* a / b is a binary fraction, which a float holds exactly
ExactQuotient(a, b) == \E m \in 1..b : PowerOfTwo(m) /\ (a * m) % b = 0

\* int(x) of a float x >= 0 computed with the scale factor: the fraction truncated;
\* when the scale factor was rounded and the fraction is a whole number above 0, the
\* float may lie just below that number and truncate to the number before it
int(a, exact) ==
    IF a.n <= 0 THEN {0}
    ELSE {a.n \div a.d} \cup (IF ~exact /\ a.n % a.d = 0 THEN {(a.n \div a.d) - 1} ELSE {})

\* lines 84-91 and 102-109: the offset of the crop box inside the slack
CropOffset(dest_offset, slack) ==
    IF dest_offset = {} THEN Half(slack)
    ELSE LET v == CHOOSE x \in dest_offset : TRUE
         IN  IF v < 0 THEN Whole(0)
             ELSE IF Less(slack, Whole(v)) THEN slack
             ELSE Whole(v)

\* resize_pad_image(image, dest_w, dest_h): the image scaled to fit and pasted on a
\* new image of the target size
resize_pad_image(src_w, src_h, dest_w, dest_h) ==
    LET tall == src_w * dest_h < dest_w * src_h
        scale == IF tall THEN Frac(dest_h, src_h) ELSE Frac(dest_w, src_w)
        exact == ExactQuotient(scale.n, scale.d)
        scaled_w == IF tall THEN Frac(src_w * dest_h, src_h) ELSE Whole(dest_w)
        scaled_h == IF tall THEN Whole(dest_h) ELSE Frac(src_h * dest_w, src_w)
    IN  {[returns |-> "padded_image", scale |-> scale, resize |-> <<w, h>>, box |-> <<>>,
          size |-> <<dest_w, dest_h>>] :
            w \in int(scaled_w, exact), h \in int(scaled_h, exact)}

\* resize_crop_image(image, dest_w, dest_h, pad_when_tall, dest_top, dest_left): what
\* it can return; resize is the size given to image.resize, <<>> when it is not called
resize_crop_image(src_w, src_h, dest_w, dest_h, pad_when_tall, dest_top, dest_left) ==
    LET tall == src_w * dest_h < dest_w * src_h
        scale == IF tall THEN Frac(dest_w, src_w) ELSE Frac(dest_h, src_h)
        exact == ExactQuotient(scale.n, scale.d)
        scaled_w == IF tall THEN Whole(dest_w) ELSE Frac(src_w * dest_h, src_h)
        scaled_h == IF tall THEN Frac(src_h * dest_w, src_w) ELSE Whole(dest_h)
        left == IF tall THEN Whole(0)
                ELSE CropOffset(dest_left, Sub(scaled_w, Whole(dest_w)))
        top == IF tall THEN CropOffset(dest_top, Sub(scaled_h, Whole(dest_h)))
               ELSE Whole(0)
        right == IF tall THEN Whole(dest_w) ELSE Add(left, Whole(dest_w))
        bottom == IF tall THEN Add(top, Whole(dest_h)) ELSE Whole(dest_h)
        boxes == {<<l, t, r, b>> : l \in int(left, exact), t \in int(top, exact),
                                   r \in int(right, exact), b \in int(bottom, exact)}
    IN  IF pad_when_tall /\ Less(Sub(bottom, top), Times066(scaled_h))
        THEN resize_pad_image(src_w, src_h, dest_w, dest_h)
        ELSE IF src_w > dest_w \/ src_h > dest_h
        THEN {[returns |-> "cropped_image", scale |-> scale, resize |-> <<w, h>>,
               box |-> box, size |-> <<box[3] - box[1], box[4] - box[2]>>] :
                 w \in int(scaled_w, exact), h \in int(scaled_h, exact), box \in boxes}
        ELSE IF Less(scaled_w, Whole(src_w)) \/ Less(scaled_h, Whole(src_h))
        THEN {[returns |-> "cropped_image", scale |-> scale, resize |-> <<>>,
               box |-> box, size |-> <<box[3] - box[1], box[4] - box[2]>>] : box \in boxes}
        ELSE {[returns |-> "image", scale |-> scale, resize |-> <<>>, box |-> <<>>,
               size |-> <<src_w, src_h>>]}

Sides == 1..MaxSide

\* The dest_top and dest_left arguments: None, or an offset before, inside or past the slack
DestOffsets == {{}} \cup {{v} : v \in {-1, 0, 1, MaxSide}}

ImageInit ==
    /\ image \in Sides \X Sides
    /\ resized = {}

\* A call of resize_crop_image on the source image
ResizeCropImage(dest_w, dest_h, pad_when_tall, dest_top, dest_left) ==
    /\ \E r \in resize_crop_image(image[1], image[2], dest_w, dest_h, pad_when_tall,
                                  dest_top, dest_left) :
           resized' = {[dest_w |-> dest_w, dest_h |-> dest_h,
                        pad_when_tall |-> pad_when_tall, image |-> r]}
    /\ UNCHANGED image
    /\ UNCHANGED <<lockVars, pagerVars, importVars>>

ImageNext ==
    \E dest_w, dest_h \in Sides, pad_when_tall \in BOOLEAN, dest_top, dest_left \in DestOffsets :
        ResizeCropImage(dest_w, dest_h, pad_when_tall, dest_top, dest_left)

PagerIdle ==
    /\ page_size = 1
    /\ page_number = 1
    /\ query = <<>>
    /\ total_items = 0
    /\ total_pages = 0
    /\ offset = 0
    /\ items = <<>>
    /\ max_pages = {}
    /\ seo_links = {}

ImportIdle ==
    /\ fields = <<>>
    /\ table = <<>>
    /\ returned = [kind |-> "none"]

ImageIdle ==
    /\ image = <<1, 1>>
    /\ resized = {}

LockIdle ==
    /\ LOCK_TIMEOUT = 1
    /\ redis = [n \in LockNames |-> {}]
    /\ pc = [w \in Workers |-> "idle"]
    /\ blocking = [w \in Workers |-> FALSE]
    /\ key = [w \in Workers |-> {}]
    /\ timeout = [w \in Workers |-> {}]
    /\ lock = [w \in Workers |-> {}]
    /\ has_lock = [w \in Workers |-> {}]
    /\ return_value = [w \in Workers |-> {}]
    /\ raised_exception = [w \in Workers |-> {}]
    /\ in_flight = [w \in Workers |-> {}]
    /\ result = [w \in Workers |-> "none"]
    /\ body_runs = [w \in Workers |-> 0]


\* A worker that is inside outer() goes on; the retry loop of a blocking acquire gets
\* the lock if it is free again and again; the server's clock goes on
LockFairness ==
    /\ \A w \in Workers : SF_vars(Enter(w))
    /\ \A w \in Workers : WF_vars(TryAcquire(w))
    /\ \A w \in Workers : WF_vars(\E o \in BodyOutcomes : Body(w, o))
    /\ \A w \in Workers : WF_vars(Exit(w))
    /\ \A w \in Workers : WF_vars(Finally(w))
    /\ WF_vars(Tick)

Init == LockInit /\ PagerIdle /\ ImportIdle /\ ImageIdle

Spec == Init /\ [][LockNext]_vars

NoExpirySpec == Init /\ [][NoExpiryNext]_vars

FairSpec == Init /\ [][TerminatingNext]_vars /\ LockFairness

\* A body that hangs never ends, whatever the fairness
FairHangSpec == Init /\ [][LockNext]_vars /\ LockFairness

PagerSpecInit == LockIdle /\ PagerInit /\ ImportIdle /\ ImageIdle

PagerSpec == PagerSpecInit /\ [][PagerNext]_vars

ImportSpecInit == LockIdle /\ PagerIdle /\ ImportInit /\ ImageIdle

ImportSpec == ImportSpecInit /\ [][ImportNext]_vars

ImageSpecInit == LockIdle /\ PagerIdle /\ ImportIdle /\ ImageInit

ImageSpec == ImageSpecInit /\ [][ImageNext]_vars

\* ------------------------------------------------------------------------
\* Claims
\* ------------------------------------------------------------------------

InBody(w) == pc[w] \in {"body", "hung"}

SameLock(w1, w2) ==
    /\ lock[w1] # {}
    /\ lock[w2] # {}
    /\ BaseKey(key[w1]) = BaseKey(key[w2])

\* C1: with no lock timeout expiring, at most one of the invocations that use the same
\* base key is executing the task body, in blocking and in non-blocking mode
C1_MutualExclusion ==
    \A w1, w2 \in Workers :
        (w1 # w2 /\ SameLock(w1, w2)) => ~(InBody(w1) /\ InBody(w2))

\* Two invocations with different key arguments and the same base key, one blocking and
\* one not: one runs the body and the other has been turned away
C1_Witness ==
    \E w1, w2 \in Workers :
        /\ w1 # w2
        /\ SameLock(w1, w2)
        /\ key[w1] # key[w2]
        /\ blocking[w1] /\ ~blocking[w2]
        /\ pc[w1] = "body"
        /\ pc[w2] = "finally" /\ has_lock[w2] = {FALSE}

HoldsNothing(w) == \A n \in LockNames : ~Owns(w, n)

\* C2: a blocking invocation starts its body only in a step in which the lock's key is
\* free, and (every body ending, acquisition being fair) it does run its body once and
\* is afterwards back with its caller, holding no lock
C2_BlockingWaitsThenRuns ==
    /\ [][\A w \in Workers :
            (pc[w] = "acquire" /\ blocking[w] /\ pc'[w] = "body")
                => redis[TheLock(w).name] = {}]_vars
    /\ \A w \in Workers :
           (pc[w] = "acquire" /\ blocking[w])
               ~> (pc[w] = "idle" /\ body_runs[w] = 1 /\ HoldsNothing(w))

\* A blocking invocation is waiting while another invocation runs the body under the
\* same lock
C2_Witness ==
    \E w1, w2 \in Workers :
        /\ w1 # w2
        /\ SameLock(w1, w2)
        /\ pc[w1] = "acquire" /\ blocking[w1]
        /\ pc[w2] = "body" /\ Owns(w2, TheLock(w1).name)

\* C3: a non-blocking invocation that finds the lock held can always take its step (it
\* does not wait), that step and the return that follows leave the Redis keys alone,
\* the body is not run and the caller gets None
C3_NonBlockingAborts ==
    /\ \A w \in Workers :
           [](pc[w] = "acquire" /\ ~blocking[w] => ENABLED TryAcquire(w))
    /\ [][\A w \in Workers :
            /\ (/\ pc[w] = "acquire" /\ ~blocking[w]
                 /\ redis[TheLock(w).name] # {}
                 /\ pc'[w] # pc[w])
                    => /\ pc'[w] = "finally"
                       /\ has_lock'[w] = {FALSE}
                       /\ redis' = redis
                       /\ body_runs'[w] = 0
            /\ (pc[w] = "finally" /\ has_lock[w] = {FALSE} /\ pc'[w] # pc[w])
                    => /\ pc'[w] = "idle"
                       /\ result'[w] = "None"
                       /\ redis' = redis
                       /\ body_runs'[w] = 0]_vars

\* A non-blocking invocation has been turned away and is back with its caller while the
\* invocation that held the lock still runs its body and still holds the key
C3_Witness ==
    \E w1, w2 \in Workers :
        /\ w1 # w2
        /\ pc[w1] = "idle" /\ result[w1] = "None" /\ body_runs[w1] = 0
        /\ pc[w2] = "body" /\ Owns(w2, TheLock(w2).name)

\* C4: a lock's key always has a time to live, which is the timeout argument or, when
\* that is None, LOCK_TIMEOUT; so even when holders never release, a blocking invocation
\* gets to run its body and every key that is set is deleted again
C4_LockTimesOut ==
    /\ [](\A n \in LockNames : \A v \in redis[n] :
              \E w \in Workers :
                  /\ v.token = w
                  /\ lock[w] # {}
                  /\ v.ttl # {}
                  /\ (CHOOSE t \in v.ttl : TRUE) <=
                         (IF timeout[w] = {} THEN LOCK_TIMEOUT
                          ELSE CHOOSE t \in timeout[w] : TRUE))
    /\ \A w \in Workers : (pc[w] = "acquire" /\ blocking[w]) ~> (pc[w] = "body")
    /\ \A n \in LockNames : (redis[n] # {}) ~> (redis[n] = {})

\* The holder hangs in its body, its lock has expired, and a blocking invocation
\* that uses the same lock runs its body
C4_Witness ==
    \E w1, w2 \in Workers :
        /\ w1 # w2
        /\ SameLock(w1, w2)
        /\ pc[w1] = "hung"
        /\ pc[w2] = "body" /\ blocking[w2] /\ Owns(w2, TheLock(w2).name)

\* ---- Pager

\* The least k with k * s >= n
CeilDiv(n, s) == CHOOSE k \in 0..n : k * s >= n /\ (k - 1) * s < n

\* The items of page p of the listing
PageItems(p) == Pager(page_size, {p}, query, {}).items

\* The items of pages lo..hi, one page after the other
RECURSIVE ConcatPages(_, _)
ConcatPages(lo, hi) ==
    IF lo > hi THEN <<>>
    ELSE IF lo = hi THEN PageItems(lo)
    ELSE ConcatPages(lo, (lo + hi) \div 2) \o ConcatPages((lo + hi) \div 2 + 1, hi)

\* C5: for a list of n >= 1 items and a page size s >= 1, total_pages is ceil(n / s),
\* every page holds at most s items, and the items of pages 1..total_pages one after the
\* other are the list itself
C5_PagerPartitions ==
    total_items >= 1 =>
        /\ total_items = Len(query)
        /\ total_pages = CeilDiv(total_items, page_size)
        /\ items = PageItems(page_number)
        /\ \A p \in 1..total_pages : Len(PageItems(p)) <= page_size
        /\ ConcatPages(1, total_pages) = query

\* The last of at least three pages, which is not full
C5_Witness ==
    /\ total_pages >= 3
    /\ page_number = total_pages
    /\ items # <<>>
    /\ Len(items) < page_size

StrictlyIncreasing(seq) == \A i, j \in Indexes(seq) : i < j => seq[i] < seq[j]

Elements(seq) == {seq[i] : i \in Indexes(seq)}

\* C6: Pager.page_link_numbers is <<1>> when there is at most one page; otherwise it is
\* strictly increasing, within 1..total_pages, starts with 1, ends with total_pages,
\* holds the current page p, and its other entries are among p-100, p-50, p-2, p-1,
\* p+1, p+2, p+50, p+100. For page 234 of 1000 it is the list of the class's docstring
C6_PageLinkNumbers ==
    /\ PageLinkNumbers(234, 1000) = <<1, 134, 184, 232, 233, 234, 235, 236, 284, 334, 1000>>
    /\ max_pages = {} =>
          IF total_pages <= 1 THEN page_link_numbers = <<1>>
          ELSE /\ StrictlyIncreasing(page_link_numbers)
               /\ Elements(page_link_numbers) \subseteq 1..total_pages
               /\ page_link_numbers[1] = 1
               /\ page_link_numbers[Len(page_link_numbers)] = total_pages
               /\ page_number \in Elements(page_link_numbers)
               /\ Elements(page_link_numbers) \ {1, page_number, total_pages}
                     \subseteq {page_number + d : d \in {-100, -50, -2, -1, 1, 2, 50, 100}}

\* A page in the middle of a long listing: every link is there
C6_Witness ==
    /\ max_pages = {}
    /\ page_number > 103
    /\ page_number < total_pages - 102
    /\ Len(page_link_numbers) = 11

\* C7: SimplePager.page_link_numbers is a run of consecutive page numbers within
\* 1..total_pages, of at most max_pages numbers, that holds the current page; it is
\* 1..total_pages when total_pages <= max_pages (page 6 of 10 gives 1..10)
C7_SimplePagerLinks ==
    /\ SimplePageLinkNumbers(6, 10, DefaultMaxPages) = Range(1, 10)
    /\ (max_pages # {} /\ total_pages >= 1) =>
          LET m == CHOOSE x \in max_pages : TRUE
          IN  /\ \A i \in Indexes(page_link_numbers) :
                     i > 1 => page_link_numbers[i] = page_link_numbers[i - 1] + 1
              /\ Elements(page_link_numbers) \subseteq 1..total_pages
              /\ Len(page_link_numbers) <= m
              /\ page_number \in Elements(page_link_numbers)
              /\ total_pages <= m => page_link_numbers = Range(1, total_pages)

\* C8: on every page of a non-empty result set first_item_number and last_item_number
\* are the 1-based positions of the first and the last item of the page (1 and 10 on the
\* first page of 123 items with page size 10)
C8_ItemNumbers ==
    /\ LET r == Pager(10, {1}, Items(123), {})
       IN  /\ FirstItemNumber(r.offset) = 1
           /\ LastItemNumber(r.offset, r.page_size, r.total_items) = 10
    /\ total_items >= 1 =>
          /\ 1 <= first_item_number
          /\ first_item_number <= last_item_number
          /\ last_item_number <= total_items
          /\ last_item_number - first_item_number + 1 = Len(items)
          /\ items[1] = query[first_item_number]
          /\ items[Len(items)] = query[last_item_number]

\* A page after the first that is not full, asked for with a page number past the end
C8_Witness ==
    /\ total_pages >= 2
    /\ page_number = total_pages
    /\ first_item_number > 1
    /\ last_item_number = total_items
    /\ last_item_number - first_item_number + 1 < page_size

Rels(links) == {links[i].rel : i \in Indexes(links)}

\* C9: on every page of a listing render_seo_links renders the rel=canonical link of
\* the current page, the rel=prev link exactly when there is a previous page and the
\* rel=next link exactly when there is a next page, whatever total_pages is
C9_SeoLinks ==
    total_pages >= 1 =>
        \A links \in seo_links :
            /\ Link("canonical", page_number) \in Elements(links)
            /\ Link("prev", prev) \in Elements(links) <=> has_prev
            /\ Link("next", next) \in Elements(links) <=> has_next
            /\ "prev" \in Rels(links) <=> has_prev
            /\ "next" \in Rels(links) <=> has_next

\* ---- import_model

\* C10: import_model is an upsert keyed on the identifier fields: with no model that
\* matches the YAML values of the identifier fields a new model is added and returned,
\* with one that matches that model is returned and none is added; and a second import
\* of the same YAML dict returns the same model, leaves exactly one model for the
\* identifier and changes no attribute
C10_Upsert ==
    \A yaml \in YamlDicts :
        LET first == import_model(fields, table, yaml, FALSE)
            second == import_model(fields, first.table, yaml, FALSE)
            found == Matching(fields, table, Data(fields, yaml))
        IN  first.returned.kind = "model" =>
                /\ found = {} => /\ Len(first.table) = Len(table) + 1
                                 /\ first.returned.model = Len(table) + 1
                /\ found # {} => /\ Len(first.table) = Len(table)
                                 /\ first.returned.model \in found
                /\ second.returned = first.returned
                /\ second.table = first.table
                /\ Cardinality(Matching(fields, second.table, Data(fields, yaml))) = 1

\* The fields declared unchangeable
UnchangeableFields == {i \in Indexes(fields) : fields[i].unchangeable}

\* import_model passes its checks of the YAML dict and its query finds the model m, whose value for the
\* field i differs from the value read from the YAML dict
FindsDiffering(yaml, m, i) ==
    /\ ~HasDuplicates(fields)
    /\ ~ConversionFails(fields, yaml)
    /\ fields[i].name \in DOMAIN Data(fields, yaml)
    /\ \A j \in IdentifierFields(fields) :
           {fields[j].name, python_name(fields[j])} \subseteq DOMAIN Data(fields, yaml)
    /\ RequiredFieldKeys(fields) \subseteq DOMAIN yaml
    /\ DOMAIN yaml \subseteq AllFieldKeys(fields)
    /\ Matching(fields, table, Data(fields, yaml)) = {m}
    /\ table[m][python_name(fields[i])] # Data(fields, yaml)[fields[i].name]

\* No import changes the value of an unchangeable field on a model that exists
UnchangeableKept ==
    \A yaml \in YamlDicts, insert_only \in BOOLEAN, i \in UnchangeableFields :
        \A m \in Indexes(table) :
            import_model(fields, table, yaml, insert_only).table[m][python_name(fields[i])]
                = table[m][python_name(fields[i])]

\* C11 as stated: whenever import_model finds an existing model whose value for an
\* unchangeable field differs from the value in the YAML data it raises an error,
\* whatever the other settings of the field and of the call are, and no import changes
\* the value of an unchangeable field on an existing model
C11_UnchangeableAlwaysRaises ==
    /\ UnchangeableKept
    /\ \A yaml \in YamlDicts, insert_only \in BOOLEAN, i \in UnchangeableFields :
           \A m \in Indexes(table) :
               FindsDiffering(yaml, m, i) =>
                   import_model(fields, table, yaml, insert_only).returned.kind = "raised"

\* C11 (amended): no import changes the value of an unchangeable field on an existing
\* model; and an import that is not insert_only and finds an existing model whose value
\* for an unchangeable field that is not also no_update differs from the value read
\* from the YAML data raises the error of the unchangeable check, leaving that value
\* as it was
C11_Unchangeable ==
    /\ UnchangeableKept
    /\ \A yaml \in YamlDicts, i \in UnchangeableFields :
           \A m \in Indexes(table) :
               (FindsDiffering(yaml, m, i) /\ ~fields[i].no_update /\ ~fields[i].identifier) =>
                   LET r == import_model(fields, table, yaml, FALSE)
                   IN  r.returned = [kind |-> "raised",
                                     error |-> "Exception: Trying to change unchangeable field"]

\* An import has raised the error of the unchangeable check for the label of the
\* model it found by its code, and the model keeps its label
C11_Witness ==
    /\ returned = [kind |-> "raised",
                   error |-> "Exception: Trying to change unchangeable field"]
    /\ \E i \in UnchangeableFields : ~fields[i].no_update /\ fields[i].name = "label"
    /\ fields[1].constructor_field
    /\ table = <<[code |-> {"a"}, label |-> {"a"}]>>

\* The fields declared no_update that import_model processes
NoUpdateFields ==
    {i \in Indexes(fields) : fields[i].no_update /\ fields[i].data_type # "IGNORE"}

\* The import call adds a new model
AddsModel(yaml, insert_only) ==
    LET r == import_model(fields, table, yaml, insert_only)
    IN  r.returned.kind = "model" /\ Len(r.table) = Len(table) + 1

\* C12: a no_update field is set to its YAML value on a newly created model, whatever
\* its constructor_field setting is, it is never assigned on an existing model, and a
\* differing YAML value for an existing model raises no error
C12_NoUpdate ==
    \A yaml \in YamlDicts, insert_only \in BOOLEAN, i \in NoUpdateFields :
        LET r == import_model(fields, table, yaml, insert_only)
        IN  /\ AddsModel(yaml, insert_only) =>
                    r.table[Len(r.table)][python_name(fields[i])]
                        = Data(fields, yaml)[fields[i].name]
            /\ \A m \in Indexes(table) :
                    /\ r.table[m][python_name(fields[i])] = table[m][python_name(fields[i])]
                    /\ FindsDiffering(yaml, m, i) => r.returned = [kind |-> "model", model |-> m]

\* The call has resized the image: image.resize was called
Resizes(r) == r.image.resize # <<>>

\* C13: resize_crop_image never stretches the source image: whenever it resizes, the
\* scale factor it applies is at most 1, and a source that fits inside the target in
\* both dimensions is returned without being scaled up
C13_NeverStretches ==
    \A r \in resized :
        /\ Resizes(r) => r.image.scale.n <= r.image.scale.d
        /\ (image[1] <= r.dest_w /\ image[2] <= r.dest_h) =>
               (~Resizes(r) \/ r.image.scale.n <= r.image.scale.d)

\* What the task body of the invocation of w did: the value it returned or the
\* exception it raised, of whatever type
BodyResult(w) ==
    IF in_flight[w] # {} THEN CHOOSE e \in in_flight[w] : TRUE
    ELSE Outcome(return_value[w], raised_exception[w])

\* The non-blocking invocation of w ends in this step
NonBlockingEnds(w) == pc[w] = "finally" /\ pc'[w] = "idle"

\* C14: a non-blocking invocation that acquired the lock releases it when the body has
\* finished, whether the body returned or raised, and its caller receives the body's
\* return value or the very exception the body raised, whatever the type of the
\* exception is (SystemExit and KeyboardInterrupt included); an invocation that did not
\* acquire the lock does not release it
C14_ReleaseAndPassThrough ==
    [][\A w \in Workers :
          NonBlockingEnds(w) =>
              IF has_lock[w] = {TRUE}
              THEN /\ Owns(w, TheLock(w).name) => redis'[TheLock(w).name] = {}
                   /\ result'[w] = BodyResult(w)
              ELSE UNCHANGED redis]_vars

====
